---- MODULE Spec2Model ----
(***************************************************************************)
(* ResultLog (src/app/log/result_log.py): a run-scoped, ordered log of     *)
(* categorised messages with a consolidation pass and a set of exporters.  *)
(*                                                                         *)
(* Conventions of the model                                                *)
(*   - a ResultMessage is a record with the five slots of the class;       *)
(*   - a category is the name of the ResultCategory member;                *)
(*   - an optional string argument is a sequence of length at most one:    *)
(*     None is <<>>, the string s is <<s>>;                                *)
(*   - list positions are 1-based (Python's index i is position i + 1);    *)
(*   - clock is the value time.process_time_ns() returns when read.        *)
(***************************************************************************)
EXTENDS Integers, Sequences, FiniteSets, TLC

VARIABLES
    messages,   \* ResultLog._messages
    start,      \* ResultLog.start, the time cursor (ns)
    loaded_at,  \* ResultLog.loaded_at
    clock,      \* process time of the interpreter (ns)
    ret,        \* the last call: its name, arguments, outcome and return value
    before,     \* the log's fields when the last call began, and whether the
                \* call before it was consolidate
    calls,      \* the arguments of the add calls that returned, in call order
    born,       \* process time read by __init__
    fuel        \* add calls still to be explored

vars == <<messages, start, loaded_at, clock, ret, before, calls, born, fuel>>

----------------------------------------------------------------------------
(* Bounds of the model *)

\* add calls explored after the initial state
MaxAdds == 2

\* Program constants
Threshold == 10
NsPerMs == 1000000

----------------------------------------------------------------------------
(* ResultCategory *)

ResultCategory == <<"DATA_QUALITY", "DATA_SOURCE", "DATA_ENTRY", "INTERNAL">>

Categories == {ResultCategory[i] : i \in 1..Len(ResultCategory)}

\* ResultCategory.<name>.value
CategoryValue(cat) ==
    CASE cat = "DATA_QUALITY" -> "data quality"
      [] cat = "DATA_SOURCE"  -> "data source"
      [] cat = "DATA_ENTRY"   -> "data entry"
      [] cat = "INTERNAL"     -> "internal"

\* cat.value.upper()
CategoryUpper(cat) ==
    CASE cat = "DATA_QUALITY" -> "DATA QUALITY"
      [] cat = "DATA_SOURCE"  -> "DATA SOURCE"
      [] cat = "DATA_ENTRY"   -> "DATA ENTRY"
      [] cat = "INTERNAL"     -> "INTERNAL"

----------------------------------------------------------------------------
(* ResultMessage *)

None == <<>>
Some(s) == <<s>>

ResultMessage(category, location, message, ms, message_id) ==
    [category |-> category, location |-> location, message |-> message,
     ms |-> ms, message_id |-> message_id]

to_dict(x) ==
    [category |-> CategoryValue(x.category), location |-> x.location,
     message |-> x.message, ms |-> x.ms, message_id |-> x.message_id]

----------------------------------------------------------------------------
(* Retrieval *)

\* variant: the comparison inverted
by_category_other(msgs, category) ==
    SelectSeq(msgs, LAMBDA x : x.category # category)

by_category(msgs, category) ==
    SelectSeq(msgs, LAMBDA x : x.category = category)

----------------------------------------------------------------------------
(* add *)

\* int((end - self.start) * 1e-6): the product is below 2^31 * 1e-6 here, where
\* the double product truncates to the integer quotient
delta_ms(end, cursor) == (end - cursor) \div NsPerMs

\* variant: the cursor is not moved, so deltas accumulate from construction
Added_no_reset(msgs, cursor, category, location, message, message_id, end) ==
    [messages |-> Append(msgs, ResultMessage(category, location, message[1],
                                             delta_ms(end, cursor), message_id)),
     start |-> cursor]

\* the log after a successful add that reads the clock at `end`
Added(msgs, cursor, category, location, message, message_id, end) ==
    [messages |-> Append(msgs, ResultMessage(category, location, message[1],
                                             delta_ms(end, cursor), message_id)),
     start |-> end]

Snapshot ==
    [messages |-> messages, start |-> start, loaded_at |-> loaded_at,
     consolidated |-> ret.op = "consolidate"]

\* variant: `if not message`, which rejects the empty string too
missing_falsy(message) == message = None \/ message = Some("")

\* if message is None
missing(message) == message = None

add(category, location, message, message_id, tick) ==
    /\ before' = Snapshot
    /\ UNCHANGED <<loaded_at, born>>
    /\ IF missing(message)
       THEN /\ ret' = [op |-> "add", raised |-> TRUE, value |-> "Missing message",
                       category |-> category, message |-> message]
            /\ UNCHANGED <<messages, start, clock, calls, fuel>>
       ELSE /\ fuel > 0
            /\ fuel' = fuel - 1
            /\ clock' = clock + tick
            /\ LET r == Added(messages, start, category, location, message,
                              message_id, clock')
               IN  /\ messages' = r.messages
                   /\ start' = r.start
            /\ calls' = Append(calls, [category |-> category, location |-> location,
                                       message |-> message[1],
                                       message_id |-> message_id])
            /\ ret' = [op |-> "add", raised |-> FALSE, value |-> None,
                       category |-> category, message |-> message]

data_entry(location, message, message_id, tick) ==
    add("DATA_ENTRY", location, message, message_id, tick)

data_quality(location, message, message_id, tick) ==
    add("DATA_QUALITY", location, message, message_id, tick)

data_source(location, message, message_id, tick) ==
    add("DATA_SOURCE", location, message, message_id, tick)

internal(location, message, message_id, tick) ==
    add("INTERNAL", location, message, message_id, tick)

----------------------------------------------------------------------------
(* consolidate *)

Positions(msgs) == [i \in 1..Len(msgs) |-> i]

\* ids[k]: the positions of the messages whose message_id is k, ascending
Items(msgs, k) == SelectSeq(Positions(msgs), LAMBDA i : msgs[i].message_id = k)

\* the keys of ids in the order the dict holds them: first occurrence
IdKeys(msgs) ==
    LET first(i) == /\ msgs[i].message_id # ""
                    /\ \A j \in 1..(i - 1) : msgs[j].message_id # msgs[i].message_id
    IN  [n \in 1..Len(SelectSeq(Positions(msgs), first)) |->
            msgs[SelectSeq(Positions(msgs), first)[n]].message_id]

\* variant: the threshold met, not exceeded
over_threshold_ge(items) == Len(items) >= Threshold

\* len(items) > 10
over_threshold(items) == Len(items) > Threshold

\* variant: the suffix counts the whole group
more_suffix_total(items) == " and " \o ToString(Len(items)) \o " more"

\* f" and {len(items)-1} more"
more_suffix(items) == " and " \o ToString(Len(items) - 1) \o " more"

\* idx = items[0]
kept(items) == items[1]

\* variant: items[:1], the kept message marked instead of the others
Rest_head(items) == SubSeq(items, 1, 1)

\* items[1:]
Rest(items) == SubSeq(items, 2, Len(items))

\* the second loop: the running (messages, to_delete) over the remaining keys
RECURSIVE MarkGroups(_, _, _)
MarkGroups(msgs, keys, to_delete) ==
    IF keys = <<>>
    THEN [messages |-> msgs, to_delete |-> to_delete]
    ELSE LET items == Items(msgs, keys[1])
         IN  IF over_threshold(items)
             THEN MarkGroups(
                    [msgs EXCEPT ![kept(items)].message = @ \o more_suffix(items)],
                    Tail(keys), to_delete \o Rest(items))
             ELSE MarkGroups(msgs, Tail(keys), to_delete)

\* variant: to_delete left in the order it was built
sort_missing(to_delete) == to_delete

\* to_delete.sort(reverse=True)
RECURSIVE sort_reverse(_)
sort_reverse(to_delete) ==
    IF to_delete = <<>>
    THEN <<>>
    ELSE LET m == CHOOSE i \in 1..Len(to_delete) :
                    \A j \in 1..Len(to_delete) : to_delete[j] <= to_delete[i]
         IN  <<to_delete[m]>> \o
             sort_reverse(SubSeq(to_delete, 1, m - 1) \o
                          SubSeq(to_delete, m + 1, Len(to_delete)))

\* del self._messages[i]; an index past the end raises IndexError
Del(msgs, i) == SubSeq(msgs, 1, i - 1) \o SubSeq(msgs, i + 1, Len(msgs))

RECURSIVE DeleteAll(_, _)
DeleteAll(msgs, to_delete) ==
    IF to_delete = <<>>
    THEN [messages |-> msgs, raised |-> FALSE]
    ELSE IF to_delete[1] > Len(msgs)
         THEN [messages |-> msgs, raised |-> TRUE]
         ELSE DeleteAll(Del(msgs, to_delete[1]), Tail(to_delete))

Consolidated(msgs) ==
    LET marked == MarkGroups(msgs, IdKeys(msgs), <<>>)
    IN  DeleteAll(marked.messages, sort_reverse(marked.to_delete))

consolidate ==
    /\ before' = Snapshot
    /\ LET r == Consolidated(messages)
       IN  /\ messages' = r.messages
           /\ ret' = [op |-> "consolidate", raised |-> r.raised,
                      value |-> IF r.raised THEN "IndexError" ELSE None]
    /\ UNCHANGED <<start, loaded_at, clock, calls, born, fuel>>

----------------------------------------------------------------------------
(* Exporters: pure functions of the log *)

RECURSIVE Join(_, _)
\* sep.join(lines)
Join(lines, sep) ==
    IF lines = <<>> THEN ""
    ELSE IF Len(lines) = 1 THEN lines[1]
    ELSE lines[1] \o sep \o Join(Tail(lines), sep)

RECURSIVE Flatten(_)
Flatten(seqs) == IF seqs = <<>> THEN <<>> ELSE seqs[1] \o Flatten(Tail(seqs))

\* the lines print() writes to standard output
print_section(msgs, cat) ==
    LET found == by_category(msgs, cat)
    IN  IF Len(found) = 0 THEN <<>>
        ELSE <<"=====| " \o CategoryUpper(cat) \o " |===========">> \o
             [i \in 1..Len(found) |-> found[i].location \o ": " \o found[i].message]

print_(msgs) ==
    <<"">> \o
    (IF Len(msgs) = 0 THEN <<"[No Messages]">> ELSE <<>>) \o
    Flatten([c \in 1..Len(ResultCategory) |-> print_section(msgs, ResultCategory[c])]) \o
    <<"">>

\* result[cat.name] = [x.to_dict() for x in self._messages if x.category == cat]
RECURSIVE json_list(_, _)
json_list(msgs, cat) ==
    IF msgs = <<>> THEN <<>>
    ELSE (IF Head(msgs).category = cat THEN <<to_dict(Head(msgs))>> ELSE <<>>) \o
         json_list(Tail(msgs), cat)

\* variant: only the categories that hold a message become keys
json_keys_nonempty(msgs) == {cat \in Categories : json_list(msgs, cat) # <<>>}

\* the category names that become keys of result
json_keys(msgs) == Categories

\* the dict to_json serialises with json.dumps(result, indent=2)
to_json(msgs) == [cat \in json_keys(msgs) |-> json_list(msgs, cat)]

\* the rows of the frame: (category, location, message, ms)
frame_rows(msgs, cat) ==
    LET found == by_category(msgs, cat)
    IN  [i \in 1..Len(found) |->
            [category |-> CategoryUpper(cat), location |-> found[i].location,
             message |-> found[i].message, ms |-> found[i].ms]]

to_frame(msgs) ==
    Flatten([c \in 1..Len(ResultCategory) |-> frame_rows(msgs, ResultCategory[c])])

\* df.to_csv(dest, index=False) for cells that need no quoting
to_csv(msgs) ==
    LET rows == to_frame(msgs)
    IN  Join(<<"category,location,message,ms">> \o
             [i \in 1..Len(rows) |->
                 rows[i].category \o "," \o rows[i].location \o "," \o
                 rows[i].message \o "," \o ToString(rows[i].ms)] \o
             <<"">>, "\n")

\* df.to_html(justify='left', index=False, border=0) for cells that need no escaping
DataFrame_to_html(found) ==
    Join(<<"<table border=\"0\" class=\"dataframe\">",
           "  <thead>",
           "    <tr style=\"text-align: left;\">",
           "      <th>Location</th>",
           "      <th>Message</th>",
           "    </tr>",
           "  </thead>",
           "  <tbody>">> \o
         Flatten([i \in 1..Len(found) |->
                    <<"    <tr>",
                      "      <td>" \o found[i].location \o "</td>",
                      "      <td>" \o found[i].message \o "</td>",
                      "    </tr>">>]) \o
         <<"  </tbody>", "</table>">>, "\n")

format_table(msgs, cat) ==
    LET caption == "  <h5>" \o CategoryUpper(cat) \o "</h5>"
        found == by_category(msgs, cat)
    IN  IF Len(found) = 0 THEN <<>>
        ELSE <<caption, DataFrame_to_html(found)>>

\* udatetime.to_displayformat
to_displayformat(dt) ==
    ToString(dt.month) \o "/" \o ToString(dt.day) \o " " \o
    ToString(dt.hour) \o ":" \o ToString(dt.minute)

RowOpen == "    <div class=\"row\">"
RowClose == "    </div>"

\* the block to_html emits for one category
html_row(msgs, cat) == <<RowOpen>> \o format_table(msgs, cat) \o <<RowClose>>

\* the list `lines` of to_html
to_html_lines(msgs, loaded, as_fragment) ==
    (IF ~as_fragment THEN <<"  <body>">> ELSE <<>>) \o
    <<"    <div class=\"container working-results\">">> \o
    Flatten([c \in 1..Len(ResultCategory) |-> html_row(msgs, ResultCategory[c])]) \o
    <<"    </div>">> \o
    <<"    <div class=\"timestamp\">run against source at " \o
        to_displayformat(loaded) \o "</div>">> \o
    (IF ~as_fragment THEN <<"  </body>">> ELSE <<>>)

to_html(msgs, loaded, as_fragment) ==
    Join(to_html_lines(msgs, loaded, as_fragment), "\n")

----------------------------------------------------------------------------
(* Read calls *)

\* the frame of every read: the log is not assigned
Returns(op, arg, value) ==
    /\ before' = Snapshot
    /\ ret' = [op |-> op, raised |-> FALSE, arg |-> arg, value |-> value]
    /\ UNCHANGED <<messages, start, loaded_at, clock, calls, born, fuel>>

read_messages == Returns("messages", None, messages)

read_by_category(category) ==
    Returns("by_category", category, by_category(messages, category))

read_print == Returns("print", None, print_(messages))

read_to_json == Returns("to_json", None, to_json(messages))

\* variant: a read that empties the log it has exported
read_to_frame_draining ==
    /\ before' = Snapshot
    /\ ret' = [op |-> "to_frame", raised |-> FALSE, arg |-> None,
               value |-> to_frame(messages)]
    /\ messages' = <<>>
    /\ UNCHANGED <<start, loaded_at, clock, calls, born, fuel>>

read_to_frame == Returns("to_frame", None, to_frame(messages))

read_to_csv == Returns("to_csv", None, to_csv(messages))

read_format_table(cat) == Returns("format_table", cat, format_table(messages, cat))

read_to_html(as_fragment) ==
    Returns("to_html", as_fragment, to_html(messages, loaded_at, as_fragment))

Reads == {"messages", "by_category", "print", "to_json", "to_frame", "to_csv",
          "format_table", "to_html"}

----------------------------------------------------------------------------
(* Inputs *)

Locations == {"NY"}
\* (message, message_id) pairs
TextArgs == {<<None, "">>, <<None, "X">>, <<Some(""), "">>, <<Some("a"), "X">>}
Ticks == {700000, 1700000}
StartTimes == {31000000}
LoadTimes == {[month |-> 4, day |-> 17, hour |-> 9, minute |-> 30]}

\* the state __init__ leaves
Constructed(t, loaded) ==
    /\ messages = <<>>
    /\ start = t
    /\ loaded_at = loaded
    /\ clock = t
    /\ born = t
    /\ calls = <<>>
    /\ ret = [op |-> "__init__", raised |-> FALSE, value |-> None]
    /\ before = [messages |-> <<>>, start |-> t, loaded_at |-> loaded,
                 consolidated |-> FALSE]

Init ==
    /\ \E t \in StartTimes, loaded \in LoadTimes : Constructed(t, loaded)
    /\ fuel = MaxAdds

Next ==
    \/ \E c \in Categories, l \in Locations, m \in TextArgs, t \in Ticks :
          add(c, l, m[1], m[2], t)
    \/ \E l \in Locations, m \in TextArgs, t \in Ticks : data_entry(l, m[1], m[2], t)
    \/ \E l \in Locations, m \in TextArgs, t \in Ticks : data_quality(l, m[1], m[2], t)
    \/ \E l \in Locations, m \in TextArgs, t \in Ticks : data_source(l, m[1], m[2], t)
    \/ \E l \in Locations, m \in TextArgs, t \in Ticks : internal(l, m[1], m[2], t)
    \/ consolidate
    \/ read_messages
    \/ \E c \in Categories : read_by_category(c)
    \/ read_print
    \/ read_to_json
    \/ read_to_frame
    \/ read_to_csv
    \/ \E c \in Categories : read_format_table(c)
    \/ \E f \in BOOLEAN : read_to_html(f)

Spec == Init /\ [][Next]_vars

----------------------------------------------------------------------------
(* Logs large enough to consolidate: the state after a scripted run of add *)

BaseSizes == {0, Threshold - 1, Threshold, Threshold + 2}
EmptySizes == {0, 2}
Layouts == {"block", "mixed"}
BaseLocations == <<"NY", "TX", "FL">>
BaseTick == NsPerMs + 200000

Repeat(x, n) == [i \in 1..n |-> x]

RECURSIVE RoundRobin(_, _, _)
RoundRobin(nx, ny, ne) ==
    IF nx = 0 /\ ny = 0 /\ ne = 0 THEN <<>>
    ELSE (IF nx > 0 THEN <<"X">> ELSE <<>>) \o
         (IF ny > 0 THEN <<"Y">> ELSE <<>>) \o
         (IF ne > 0 THEN <<"">> ELSE <<>>) \o
         RoundRobin(IF nx > 0 THEN nx - 1 ELSE 0, IF ny > 0 THEN ny - 1 ELSE 0,
                    IF ne > 0 THEN ne - 1 ELSE 0)

\* the message_id of each scripted call
BaseIds(nx, ny, ne, layout) ==
    IF layout = "block"
    THEN Repeat("X", nx) \o Repeat("", ne) \o Repeat("Y", ny)
    ELSE RoundRobin(nx, ny, ne)

\* call i cycles through the categories and locations and has its own text
BaseCalls(ids) ==
    [i \in 1..Len(ids) |->
        [category |-> ResultCategory[(i % Len(ResultCategory)) + 1],
         location |-> BaseLocations[(i % Len(BaseLocations)) + 1],
         message |-> "m" \o ToString(i),
         message_id |-> ids[i]]]

RECURSIVE AfterCalls(_, _, _)
\* the (messages, start) that the calls leave, each reading the clock BaseTick later
AfterCalls(log, cs, now) ==
    IF cs = <<>> THEN log
    ELSE AfterCalls(Added(log.messages, log.start, cs[1].category, cs[1].location,
                          Some(cs[1].message), cs[1].message_id, now + BaseTick),
                    Tail(cs), now + BaseTick)

Scripted(t, loaded, cs) ==
    LET log == AfterCalls([messages |-> <<>>, start |-> t], cs, t)
    IN  /\ messages = log.messages
        /\ start = log.start
        /\ clock = log.start
        /\ loaded_at = loaded
        /\ born = t
        /\ calls = cs
        /\ ret = [op |-> "__init__", raised |-> FALSE, value |-> None]
        /\ before = [messages |-> log.messages, start |-> log.start,
                     loaded_at |-> loaded, consolidated |-> FALSE]

InitConsolidate ==
    /\ \E t \in StartTimes, loaded \in LoadTimes, nx \in BaseSizes, ny \in BaseSizes,
          ne \in EmptySizes, layout \in Layouts :
            Scripted(t, loaded, BaseCalls(BaseIds(nx, ny, ne, layout)))
    /\ fuel = MaxAdds

GroupIds == {"", "X", "Y"}
GroupCategories == {"DATA_QUALITY", "INTERNAL"}

NextConsolidate ==
    \/ \E c \in GroupCategories, id \in GroupIds : add(c, "NY", Some("b"), id, BaseTick)
    \/ consolidate
    \/ read_to_json

SpecConsolidate == InitConsolidate /\ [][NextConsolidate]_vars

----------------------------------------------------------------------------
(* Vocabulary of the properties *)

\* how many messages carry the id
CountId(msgs, id) == Cardinality({i \in 1..Len(msgs) : msgs[i].message_id = id})

\* the non-empty ids of a log
GroupedIds(msgs) == {msgs[i].message_id : i \in 1..Len(msgs)} \ {""}

\* the first-inserted message that carries the id
FirstOf(msgs, id) ==
    msgs[CHOOSE i \in 1..Len(msgs) :
            /\ msgs[i].message_id = id
            /\ \A j \in 1..(i - 1) : msgs[j].message_id # id]

WithId(msgs, id) == SelectSeq(msgs, LAMBDA x : x.message_id = id)

MoreText(text, n) == text \o " and " \o ToString(n) \o " more"

\* the last call was consolidate() and it returned
Consolidated_now == ret.op = "consolidate" /\ ~ret.raised

\* a is b itself, or b with a merge suffix appended to its text
SameMessage(a, b, maxn) ==
    \/ a = b
    \/ \E n \in 1..maxn : a = [b EXCEPT !.message = MoreText(b.message, n)]

RECURSIVE Embeds(_, _, _)
\* `after` is `prior` with some messages left out, the others in their order
Embeds(after, prior, maxn) ==
    IF after = <<>> THEN TRUE
    ELSE IF prior = <<>> THEN FALSE
    ELSE IF SameMessage(after[1], prior[1], maxn)
         THEN Embeds(Tail(after), Tail(prior), maxn)
         ELSE Embeds(after, Tail(prior), maxn)

----------------------------------------------------------------------------
(* Properties of consolidate, under SpecConsolidate *)

\* C1: after consolidate(), of every non-empty message_id that N > Threshold
\* messages carried exactly one message remains; it is the first-inserted message
\* of the group, its text is the original text followed by " and {N-1} more", and
\* its category, location, ms and message_id are unchanged.
C1_MergedGroup ==
    ret.op = "consolidate" =>
        /\ ~ret.raised
        /\ \A id \in GroupedIds(before.messages) :
              LET n == CountId(before.messages, id)
                  first == FirstOf(before.messages, id)
              IN  n > Threshold =>
                    WithId(messages, id) =
                        <<[first EXCEPT !.message = MoreText(first.message, n - 1)]>>

\* a group of more than Threshold messages that spans several categories and
\* locations has just been merged
C1_Witness ==
    /\ Consolidated_now
    /\ \E i, j \in 1..Len(before.messages) :
          /\ before.messages[i].message_id = before.messages[j].message_id
          /\ before.messages[i].message_id # ""
          /\ before.messages[i].category # before.messages[j].category
          /\ before.messages[i].location # before.messages[j].location
          /\ CountId(before.messages, before.messages[i].message_id) > Threshold + 1
          /\ CountId(messages, before.messages[i].message_id) = 1

\* C2: consolidate() leaves every group of Threshold or fewer messages intact:
\* none of its messages is removed or changed.
C2_SmallGroupIntact ==
    ret.op = "consolidate" =>
        \A id \in GroupedIds(before.messages) :
            CountId(before.messages, id) <= Threshold =>
                WithId(messages, id) = WithId(before.messages, id)

\* a group of exactly Threshold messages went through a consolidate() that merged
\* another group
C2_Witness ==
    /\ Consolidated_now
    /\ \E id \in GroupedIds(before.messages) :
          /\ CountId(before.messages, id) = Threshold
          /\ CountId(messages, id) = Threshold
    /\ Len(messages) < Len(before.messages)

\* C3: consolidate() never removes or alters a message whose message_id is empty,
\* and the messages that survive (a merged group's survivor with its suffix
\* appended) keep their original relative order.
C3_OrderPreserved ==
    ret.op = "consolidate" =>
        /\ WithId(messages, "") = WithId(before.messages, "")
        /\ Embeds(messages, before.messages, Len(before.messages))

\* two interleaved groups were merged around messages without an id
C3_Witness ==
    /\ Consolidated_now
    /\ CountId(before.messages, "X") > Threshold
    /\ CountId(before.messages, "Y") > Threshold
    /\ \E i, j, k, l \in 1..Len(before.messages) :
          /\ i < j /\ j < k /\ k < l
          /\ before.messages[i].message_id = "X"
          /\ before.messages[j].message_id = "Y"
          /\ before.messages[k].message_id = ""
          /\ before.messages[l].message_id = "X"
    /\ Len(messages) > 3

\* C10: a consolidate() that follows a consolidate() changes nothing, and after
\* any consolidate() no non-empty message_id is carried by more than Threshold
\* messages.
C10_Idempotent ==
    ret.op = "consolidate" =>
        /\ ~ret.raised
        /\ before.consolidated => messages = before.messages
        /\ Consolidated(messages).messages = messages
        /\ \A id \in GroupedIds(messages) : CountId(messages, id) <= Threshold

\* consolidate() ran twice in a row on a log in which the first run merged a group
C10_Witness ==
    /\ Consolidated_now
    /\ before.consolidated
    /\ \E i \in 1..Len(messages), n \in Threshold..(Threshold + MaxAdds + 2) :
          messages[i].message = MoreText("m1", n)

----------------------------------------------------------------------------
(* Properties of add and of the reads, under Spec *)

\* the arguments a message was added with
Arguments(x) ==
    [category |-> x.category, location |-> x.location, message |-> x.message,
     message_id |-> x.message_id]

ArgumentsOf(msgs) == [i \in 1..Len(msgs) |-> Arguments(msgs[i])]

\* C4: after N add calls with non-null messages on a new log, the log holds
\* exactly N messages in call order, and by_category(c) returns, in insertion
\* order, exactly the messages that were added with category c.
C4_AppendOnly ==
    /\ Len(messages) = Len(calls)
    /\ ArgumentsOf(messages) = calls
    /\ \A c \in Categories :
          ArgumentsOf(by_category(messages, c)) =
              SelectSeq(calls, LAMBDA a : a.category = c)
    /\ ret.op = "by_category" =>
          ArgumentsOf(ret.value) = SelectSeq(calls, LAMBDA a : a.category = ret.arg)

\* by_category returned two different messages of one category
C4_Witness ==
    /\ ret.op = "by_category"
    /\ Len(ret.value) = 2
    /\ ret.value[1].ms # ret.value[2].ms
    /\ ret.value[1].message # ret.value[2].message

\* C5: add with message None raises and leaves the message sequence and the time
\* cursor as they were; add with the empty string is not rejected and appends it.
C5_MissingMessage ==
    ret.op = "add" =>
        /\ ret.message = None =>
              /\ ret.raised
              /\ messages = before.messages
              /\ start = before.start
        /\ ret.message # None =>
              /\ ~ret.raised
              /\ Len(messages) = Len(before.messages) + 1
              /\ messages[Len(messages)].message = ret.message[1]

\* add(None) has just raised on a log that holds messages
C5_Witness ==
    /\ ret.op = "add"
    /\ ret.message = None
    /\ ret.raised
    /\ Len(messages) > 0
    /\ messages[Len(messages)].message = ""

RECURSIVE SumMs(_)
SumMs(msgs) == IF msgs = <<>> THEN 0 ELSE Head(msgs).ms + SumMs(Tail(msgs))

\* C6: a successful add records the process time since the previous successful
\* add (or construction) truncated to whole milliseconds and moves the cursor to
\* the time it read; every ms is >= 0 and the ms recorded add up to no more than
\* the process time elapsed since construction.
C6_ElapsedMs ==
    /\ (ret.op = "add" /\ ~ret.raised) =>
          LET ms == messages[Len(messages)].ms
              elapsed == clock - before.start
          IN  /\ ms * NsPerMs <= elapsed
              /\ elapsed < (ms + 1) * NsPerMs
              /\ start = clock
    /\ \A i \in 1..Len(messages) : messages[i].ms >= 0
    /\ SumMs(messages) * NsPerMs <= clock - born

\* two adds less than a millisecond apart, more than a millisecond after
\* construction: the second records 0 ms
C6_Witness ==
    /\ ret.op = "add" /\ ~ret.raised
    /\ Len(messages) >= 2
    /\ messages[Len(messages)].ms = 0
    /\ clock - born > NsPerMs
    /\ clock - before.start < NsPerMs

\* C7: by_category and every exporter leave the message sequence, every
\* message's fields, loaded_at and the time cursor as they were, and return the
\* same result however many reads came before.
C7_ReadsArePure ==
    ret.op \in Reads =>
        /\ messages = before.messages
        /\ start = before.start
        /\ loaded_at = before.loaded_at
        /\ ret.op = "to_frame" => ret.value = to_frame(before.messages)
        /\ ret.op = "to_json" => ret.value = to_json(before.messages)
        /\ ret.op = "to_csv" => ret.value = to_csv(before.messages)
        /\ ret.op = "print" => ret.value = print_(before.messages)

\* an exporter ran on a log that holds messages of two categories
C7_Witness ==
    /\ ret.op = "to_frame"
    /\ Len(messages) > 1
    /\ messages[1].category # messages[2].category

----------------------------------------------------------------------------
(* Properties of the exporters *)

\* C8 (under SpecConsolidate): in every reachable state, with zero messages and
\* after consolidate() too, the structured export has exactly the four keys
\* DATA_QUALITY, DATA_SOURCE, DATA_ENTRY, INTERNAL, and the list under each key
\* holds the records of by_category of that category in insertion order, so the
\* lists together hold every message once.
C8_JsonKeys ==
    ret.op = "to_json" =>
        /\ DOMAIN ret.value = {"DATA_QUALITY", "DATA_SOURCE", "DATA_ENTRY", "INTERNAL"}
        /\ \A c \in DOMAIN ret.value :
              LET found == by_category(messages, c)
              IN  /\ Len(ret.value[c]) = Len(found)
                  /\ \A i \in 1..Len(found) :
                        ret.value[c][i] =
                            [category |-> CategoryValue(c),
                             location |-> found[i].location,
                             message |-> found[i].message,
                             ms |-> found[i].ms,
                             message_id |-> found[i].message_id]
        /\ Len(Flatten([c \in 1..Len(ResultCategory) |->
                          IF ResultCategory[c] \in DOMAIN ret.value
                          THEN ret.value[ResultCategory[c]] ELSE <<>>]))
              = Len(messages)

\* to_json ran on a consolidated log in which a category has no message
C8_Witness ==
    /\ ret.op = "to_json"
    /\ \E c \in Categories : by_category(messages, c) = <<>>
    /\ \E i \in 1..Len(messages), n \in Threshold..(Threshold + MaxAdds + 2) :
          messages[i].message = MoreText("m1", n)
    /\ Len(messages) > 1

\* the categories that hold a message
NonEmpty(msgs) == {c \in Categories : by_category(msgs, c) # <<>>}

CountLines(lines, line) == Cardinality({i \in 1..Len(lines) : lines[i] = line})

\* C9 (under Spec): to_html emits output for a category only when the category
\* has a message: the container holds one block per non-empty category and
\* nothing, not even a wrapper block, for an empty one.
C9_OnlyNonEmptyBlocks ==
    ret.op = "to_html" =>
        LET lines == to_html_lines(messages, loaded_at, ret.arg)
        IN  /\ ret.value = Join(lines, "\n")
            /\ CountLines(lines, RowOpen) = Cardinality(NonEmpty(messages))
            /\ CountLines(lines, RowClose) = Cardinality(NonEmpty(messages)) + 1

====
